---- MODULE Spec2Model ----
(***************************************************************************)
(* Model of src/model/fad.py: the Frechet Audio Distance class FAD.        *)
(*                                                                         *)
(*   - get_embeddings, calculate_embd_statistics (numpy mean / cov),       *)
(*   - calculate_frechet_distance (asserts, sqrtm, singular retry,         *)
(*     complex residue check),                                             *)
(*   - calculate_embd_statistics_background (check-then-write file cache), *)
(*   - score.                                                              *)
(*                                                                         *)
(* Floating point numbers are modelled as extended rationals <<n, d>>:     *)
(* d > 0 is the finite value n/d, <<0,0>> is NaN, <<1,0>> and <<-1,0>>     *)
(* are +inf and -inf.  Rounding is not modelled.                           *)
(* numpy arrays are records [shape, data] with data in row-major order.    *)
(* The external collaborators (the VGGish model, scipy's sqrtm, the file   *)
(* system under torch.save / torch.load) are modelled by what the code     *)
(* relies on; sqrtm's numerical answer is an oracle choice.                *)
(***************************************************************************)
EXTENDS Integers, Sequences, FiniteSets, TLC

VARIABLES
    fs,          \* the file system: per save_path, the directory and the statistics file
    background,  \* self.background of the FAD object
    ncalls,      \* sequential runs: number of top-level calls made
    last,        \* sequential runs: the last top-level call and its outcome
    hist,        \* sequential runs: per save_path, a summary of the calls of the background path
    pc,          \* concurrent runs: position of each process inside the background path
    stats,       \* concurrent runs: background_statistics local of each process
    ret,         \* concurrent runs: outcome of each process
    bg,          \* concurrent runs: the background argument of each process
    writers,     \* concurrent runs: processes in the order their torch.save completed
    dist         \* distance runs: the last call of calculate_frechet_distance

vars == <<fs, background, ncalls, last, hist, pc, stats, ret, bg, writers, dist>>

---------------------------------------------------------------------------
(* Bounds of the model *)

\* embedding dimension of the external model (128 for VGGish)
D == 2
\* number of top-level calls in a sequential run
MaxCalls == 3
\* number of concurrent processes sharing one cache location
NumProcs == 2

---------------------------------------------------------------------------
\* a local binding whose value TLC evaluates once
With(v, Body(_)) == Body(v)

---------------------------------------------------------------------------
(* Floating point numbers as extended rationals *)

RECURSIVE GCD(_, _)
GCD(a, b) == IF b = 0 THEN a ELSE GCD(b, a % b)

AbsInt(a) == IF a < 0 THEN -a ELSE a

SignInt(a) == IF a < 0 THEN -1 ELSE IF a > 0 THEN 1 ELSE 0

NaN == <<0, 0>>
Inf == <<1, 0>>

Q(n, d) ==
    IF d = 0 THEN <<SignInt(n), 0>>
    ELSE LET g == GCD(AbsInt(n), AbsInt(d))
             s == SignInt(d)
         IN  <<(s * n) \div g, (s * d) \div g>>

QInt(n) == <<n, 1>>

IsNaN(x) == x = NaN
IsFinite(x) == x[2] # 0

QNeg(x) == <<-x[1], x[2]>>

QAbs(x) == <<AbsInt(x[1]), x[2]>>

QAdd(x, y) ==
    IF IsNaN(x) \/ IsNaN(y) THEN NaN
    ELSE IF ~IsFinite(x) /\ ~IsFinite(y) THEN (IF x = y THEN x ELSE NaN)
    ELSE IF ~IsFinite(x) THEN x
    ELSE IF ~IsFinite(y) THEN y
    ELSE Q(x[1] * y[2] + y[1] * x[2], x[2] * y[2])

QSub(x, y) == QAdd(x, QNeg(y))

QMul(x, y) ==
    IF IsNaN(x) \/ IsNaN(y) THEN NaN
    ELSE IF ~IsFinite(x) \/ ~IsFinite(y)
         THEN <<SignInt(x[1]) * SignInt(y[1]), 0>>
    ELSE Q(x[1] * y[1], x[2] * y[2])

\* IEEE division: x/0 is +-inf, 0/0 is NaN
QDiv(x, y) ==
    IF IsNaN(x) \/ IsNaN(y) THEN NaN
    ELSE IF ~IsFinite(y) THEN (IF IsFinite(x) THEN QInt(0) ELSE NaN)
    ELSE IF ~IsFinite(x) THEN <<x[1] * (IF y[1] < 0 THEN -1 ELSE 1), 0>>
    ELSE Q(x[1] * y[2], x[2] * y[1])

\* x <= y; every comparison with NaN is false
QLeq(x, y) ==
    /\ ~IsNaN(x)
    /\ ~IsNaN(y)
    /\ IF ~IsFinite(x) \/ ~IsFinite(y)
       THEN x = QNeg(Inf) \/ y = Inf
       ELSE x[1] * y[2] <= y[1] * x[2]

RECURSIVE QSum(_)
QSum(s) == IF s = <<>> THEN QInt(0) ELSE QAdd(s[1], QSum(Tail(s)))

\* np.max: NaN propagates
RECURSIVE QMax(_)
QMax(s) ==
    IF Len(s) = 1 THEN s[1]
    ELSE LET m == QMax(Tail(s))
         IN  IF IsNaN(s[1]) \/ IsNaN(m) THEN NaN
             ELSE IF QLeq(m, s[1]) THEN s[1] ELSE m

---------------------------------------------------------------------------
(* numpy arrays *)

RECURSIVE Prod(_)
Prod(s) == IF s = <<>> THEN 1 ELSE s[1] * Prod(Tail(s))

\* (\o <<>> makes TLC evaluate the elements once)
Arr(shape, data) == [shape |-> shape \o <<>>, data |-> data \o <<>>]

Scalar(x) == Arr(<<>>, <<x>>)

Vec(xs) == Arr(<<Len(xs)>>, xs)

\* element (i, j) of a 2-d array
At(a, i, j) == a.data[(i - 1) * a.shape[2] + j]

Mat(n, m, f(_, _)) ==
    Arr(<<n, m>>, [k \in 1..(n * m) |-> f(((k - 1) \div m) + 1, ((k - 1) % m) + 1)])

\* np.atleast_1d
AtLeast1d(a) == IF a.shape = <<>> THEN Arr(<<1>>, a.data) ELSE a

\* np.atleast_2d
AtLeast2d(a) ==
    IF a.shape = <<>> THEN Arr(<<1, 1>>, a.data)
    ELSE IF Len(a.shape) = 1 THEN Arr(<<1, a.shape[1]>>, a.data)
    ELSE a

\* elementwise a - b of arrays of one shape
ArrSub(a, b) == Arr(a.shape, [k \in 1..Len(a.data) |-> QSub(a.data[k], b.data[k])])

\* a.dot(a) of a 1-d array
Dot1(a, b) == QSum([k \in 1..Len(a.data) |-> QMul(a.data[k], b.data[k])])

Min(a, b) == IF a <= b THEN a ELSE b

\* np.diagonal of a 2-d array, as a sequence
Diagonal(data, shape) ==
    [i \in 1..Min(shape[1], shape[2]) |-> data[(i - 1) * shape[2] + i]]

\* np.trace of a 2-d array
Trace(a) == QSum(Diagonal(a.data, a.shape))

\* np.isfinite(a).all()
AllFinite(s) == \A k \in 1..Len(s) : IsFinite(s[k])

---------------------------------------------------------------------------
(* The external embedding model and get_embeddings *)

\* A waveform is represented by what the external model makes of it: one
\* D-vector per frame (a too short waveform has no frame).
Frame(a, b) == [i \in 1..D |-> IF i = 1 THEN QInt(a) ELSE QInt(b)]

Silent == <<>>

Wave(a, b) == <<Frame(a, b)>>

\* self.model.forward(audio, sr).detach().numpy(): an (n, D) array
Forward(audio) ==
    Arr(<<Len(audio), D>>,
        [k \in 1..(Len(audio) * D) |-> audio[((k - 1) \div D) + 1][((k - 1) % D) + 1]])

RECURSIVE ConcatRows(_)
ConcatRows(lst) ==
    IF Len(lst) = 1 THEN lst[1]
    ELSE LET rest == ConcatRows(Tail(lst))
         IN  Arr(<<lst[1].shape[1] + rest.shape[1], lst[1].shape[2]>>,
                 lst[1].data \o rest.data)

NoArr == Arr(<<0>>, <<>>)

\* FAD.get_embeddings: np.concatenate raises ValueError on an empty list
GetEmbeddings(x) ==
    LET embd_lst == [k \in 1..Len(x) |-> Forward(x[k])]
    IN  IF Len(embd_lst) = 0
        THEN [raised |-> "ValueError", value |-> NoArr]
        ELSE [raised |-> "None", value |-> ConcatRows(embd_lst)]

\* len(ndarray)
LenArr(a) == a.shape[1]

---------------------------------------------------------------------------
(* calculate_embd_statistics *)

\* np.mean(embd_lst, axis=0)
MeanAxis0(e) ==
    LET n == e.shape[1]
        m == e.shape[2]
    IN  Arr(<<m>>, [j \in 1..m |->
            QDiv(QSum([i \in 1..n |-> At(e, i, j)]), QInt(n))])

\* ndarray.squeeze() of a 2-d array
Squeeze(a) ==
    LET keep == SelectSeq(a.shape, LAMBDA d : d # 1)
    IN  Arr(keep, a.data)

\* np.cov(embd_lst, rowvar=False): columns are variables, rows observations;
\* the divisor is N - 1, and 0 when there is one observation (numpy 2; a
\* single-row input is treated differently before 2.0).
Cov(e) ==
    LET nv == e.shape[2]
        no == e.shape[1]
        avg == [v \in 1..nv |-> QDiv(QSum([o \in 1..no |-> At(e, o, v)]), QInt(no))] \o <<>>
        fact == IF no - 1 <= 0 THEN 0 ELSE no - 1
        c(v, w) == QMul(QSum([o \in 1..no |->
                              QMul(QSub(At(e, o, v), avg[v]), QSub(At(e, o, w), avg[w]))]),
                        QDiv(QInt(1), QInt(fact)))
    IN  Squeeze(Mat(nv, nv, c))

\* FAD.calculate_embd_statistics: the pair (mu, sigma)
CalculateEmbdStatistics(embd_lst) ==
    <<MeanAxis0(embd_lst), Cov(embd_lst)>>

---------------------------------------------------------------------------
(* scipy.linalg.sqrtm, as an oracle *)

\* A complex (or real) square array as sqrtm returns it.
CArr(shape, data, imag, cplx) ==
    [shape |-> shape, data |-> data \o <<>>, imag |-> imag \o <<>>, cplx |-> cplx]

NoCovmean == CArr(<<0>>, <<>>, <<>>, FALSE)

\* The answers the oracle may give.  re is the real part of every diagonal
\* entry, im the imaginary part of entry (1,1), off the imaginary part of
\* entry (1,2) (when there is one); a real answer has no imaginary part.
SqrtmKinds ==
    { k \in [re : {QInt(2), NaN},
             im : {QInt(0), Q(1, 1000), Q(1, 500), Inf},
             off : {QInt(0), Q(1, 2)},
             cplx : BOOLEAN] :
        ~k.cplx => (k.im = QInt(0) /\ k.off = QInt(0)) }

\* the n x n array of an oracle answer
SqrtmResult(k, n) ==
    CArr(<<n, n>>,
         [p \in 1..(n * n) |->
            IF (p - 1) \div n = (p - 1) % n THEN k.re ELSE QInt(0)],
         [p \in 1..(n * n) |->
            IF p = 1 THEN k.im ELSE IF p = 2 THEN k.off ELSE QInt(0)],
         k.cplx)

---------------------------------------------------------------------------
(* calculate_frechet_distance *)

\* the default of the eps parameter
EPS == Q(1, 1000000)

\* atol of the np.allclose call
ATOL == Q(1, 1000)

\* np.eye(n) * eps added to a 2-d array
AddOffset(sigma, eps) ==
    Arr(sigma.shape,
        [p \in 1..Len(sigma.data) |->
            IF (p - 1) \div sigma.shape[2] = (p - 1) % sigma.shape[2]
            THEN QAdd(sigma.data[p], eps) ELSE sigma.data[p]])

\* mutant: only the real parts are tested
CovmeanFiniteReal(c) == AllFinite(c.data)

\* np.isfinite(covmean).all() of a possibly complex array
CovmeanFinite(c) == AllFinite(c.data) /\ AllFinite(c.imag)

\* np.allclose(np.diagonal(covmean).imag, 0, atol=1e-3)
DiagImagClose(c) ==
    LET d == Diagonal(c.imag, c.shape)
    IN  \A i \in 1..Len(d) : QLeq(QAbs(d[i]), ATOL)

\* mutant: the maximum is taken over the diagonal only
MaxAbsImagDiagonal(c) ==
    QMax([i \in 1..c.shape[1] |-> QAbs(Diagonal(c.imag, c.shape)[i])])

\* np.max(np.abs(covmean.imag))
MaxAbsImag(c) == QMax([p \in 1..Len(c.imag) |-> QAbs(c.imag[p])])

\* mutant: the covariance shapes are not compared
CovShapesAgreeUnchecked(sigma1, sigma2) == TRUE

\* the condition of the assert on the means
MeanShapesAgree(mu1, mu2) == mu1.shape = mu2.shape

\* the condition of the assert on the covariances
CovShapesAgree(sigma1, sigma2) == sigma1.shape = sigma2.shape

DistResult(raised, err, m, value, calls, covmean) ==
    [raised |-> raised, err |-> err, m |-> m, value |-> value,
     sqrtmCalls |-> calls, covmean |-> covmean]

\* FAD.calculate_frechet_distance.  sq1 and sq2 are the oracle's answers to
\* the first and to the second sqrtm call.  sqrtmCalls lists the factors of
\* the product each sqrtm call was given; covmean is the array whose trace
\* enters the result.
CalculateFrechetDistance(mu1_, sigma1_, mu2_, sigma2_, eps, sq1, sq2) ==
    LET mu1    == AtLeast1d(mu1_)
        mu2    == AtLeast1d(mu2_)
        sigma1 == AtLeast2d(sigma1_)
        sigma2 == AtLeast2d(sigma2_)
    IN
    IF ~MeanShapesAgree(mu1, mu2)
    THEN DistResult("AssertionError",
                    "Training and test mean vectors have different lengths",
                    NaN, NaN, <<>>, NoCovmean)
    ELSE IF ~CovShapesAgree(sigma1, sigma2)
    THEN DistResult("AssertionError",
                    "Training and test covariances have different dimensions",
                    NaN, NaN, <<>>, NoCovmean)
    ELSE IF sigma1.shape[2] # sigma2.shape[1]
    THEN \* sigma1.dot(sigma2)
         DistResult("ValueError", "shapes not aligned", NaN, NaN, <<>>, NoCovmean)
    ELSE IF ~(AllFinite(sigma1.data) /\ AllFinite(sigma2.data))
    THEN \* sqrtm validates its argument
         DistResult("ValueError", "array must not contain infs or NaNs",
                    NaN, NaN, << <<sigma1, sigma2>> >>, NoCovmean)
    ELSE
    LET diff   == ArrSub(mu1, mu2)
        n      == sigma1.shape[1]
        first  == SqrtmResult(sq1, n)
        retry  == ~CovmeanFinite(first)
        off1   == AddOffset(sigma1, eps)
        off2   == AddOffset(sigma2, eps)
        calls  == IF retry THEN << <<sigma1, sigma2>>, <<off1, off2>> >>
                           ELSE << <<sigma1, sigma2>> >>
        covmean == IF retry THEN SqrtmResult(sq2, n) ELSE first
    IN
    IF covmean.cplx /\ ~DiagImagClose(covmean)
    THEN DistResult("ValueError", "Imaginary component", MaxAbsImag(covmean),
                    NaN, calls, covmean)
    ELSE
    LET real       == Arr(covmean.shape, covmean.data)
        tr_covmean == Trace(real)
    IN  DistResult("None", "", NaN,
            QSub(QAdd(QAdd(Dot1(diff, diff), Trace(sigma1)), Trace(sigma2)),
                 QMul(QInt(2), tr_covmean)),
            calls,
            CArr(covmean.shape, covmean.data,
                 [p \in 1..Len(covmean.imag) |-> QInt(0)], FALSE))

---------------------------------------------------------------------------
(* The file system under torch.save / torch.load *)

\* the save_path arguments: the default ".tmp/" and one other directory
DefaultLoc == ".tmp/"

Locations == {DefaultLoc, "cache/"}

NoStats == <<NoArr, NoArr>>

\* pickle of one ndarray: rank, shape, then the data
PickleArr(a) ==
    <<QInt(Len(a.shape))>> \o [i \in 1..Len(a.shape) |-> QInt(a.shape[i])] \o a.data

\* the bytes torch.save writes for the pair (mu, sigma)
Pickle(st) == PickleArr(st[1]) \o PickleArr(st[2])

\* the ndarray at the head of pickled bytes
UnpickleArr(b) ==
    LET rank  == b[1][1]
        shape == [i \in 1..rank |-> b[1 + i][1]]
    IN  Arr(shape, SubSeq(b, 2 + rank, 1 + rank + Prod(shape)))

\* what torch.load makes of the bytes of a complete file
Unpickle(b) ==
    LET first == UnpickleArr(b)
        used  == 1 + Len(first.shape) + Len(first.data)
    IN  <<first, UnpickleArr(SubSeq(b, used + 1, Len(b)))>>

\* a file: absent, partial (opened for writing, not yet closed) or complete
File(state, bytes) == [state |-> state, bytes |-> bytes]

Absent == File("absent", <<>>)

\* mutant: the existence check looks at another path and never finds the file
PathExistsWrongPath(fsys, loc) == FALSE

\* os.path.join(save_path, "background_statistics.ptc") names fsys[loc].file
\* os.path.exists(save_path)
PathExists(fsys, loc) == fsys[loc].file.state # "absent"

\* outcome of a call: raised is "None" when it returns; kind tells what it
\* returns: "stats" (the pair), "minus1" (the value -1) or "distance"
Outcome(raised, kind, st, value) ==
    [raised |-> raised, kind |-> kind, stats |-> st, value |-> value]

Raise(exc) == Outcome(exc, "raise", NoStats, NaN)

\* torch.load(save_path): an incomplete file cannot be read
TorchLoad(fsys, loc) ==
    IF fsys[loc].file.state = "complete"
    THEN Outcome("None", "stats", Unpickle(fsys[loc].file.bytes), NaN)
    ELSE Raise("RuntimeError")

\* torch.save opens the file for writing: fails when the parent directory
\* does not exist, and truncates an existing file
TorchSaveOpen(fsys, loc) ==
    IF ~fsys[loc].dir
    THEN [ok |-> FALSE, fs |-> fsys]
    ELSE [ok |-> TRUE,
          fs |-> [fsys EXCEPT ![loc].file = File("partial", <<>>)]]

\* mutant: the write is skipped when a complete file is there by then
TorchSaveFinishKeep(fsys, loc, st) ==
    IF fsys[loc].file.state = "complete" THEN fsys
    ELSE [fsys EXCEPT ![loc].file = File("complete", Pickle(st))]

\* torch.save writes the pickle and closes the file
TorchSaveFinish(fsys, loc, st) ==
    [fsys EXCEPT ![loc].file = File("complete", Pickle(st))]

---------------------------------------------------------------------------
(* calculate_embd_statistics_background *)

BgResult(out, fsys, computes, estimates, writes) ==
    [ret |-> out, fs |-> fsys, computes |-> computes,
     estimates |-> estimates, writes |-> writes]

\* FAD.calculate_embd_statistics_background(background_, save_path=loc),
\* run without interruption.  computes counts the get_embeddings calls,
\* estimates the calculate_embd_statistics calls, writes the torch.save
\* calls that opened the file.
BackgroundStatistics(fsys, loc, background_) ==
    IF PathExists(fsys, loc)
    THEN BgResult(TorchLoad(fsys, loc), fsys, 0, 0, 0)
    ELSE
    With(GetEmbeddings(background_), LAMBDA embds_background :
    IF embds_background.raised # "None"
    THEN BgResult(Raise(embds_background.raised), fsys, 1, 0, 0)
    ELSE IF LenArr(embds_background.value) = 0
    THEN BgResult(Outcome("None", "minus1", NoStats, QInt(-1)), fsys, 1, 0, 0)
    ELSE
    With(CalculateEmbdStatistics(embds_background.value), LAMBDA background_statistics :
    With(TorchSaveOpen(fsys, loc), LAMBDA opened :
    IF ~opened.ok
    THEN BgResult(Raise("RuntimeError"), opened.fs, 1, 1, 0)
    ELSE BgResult(Outcome("None", "stats", background_statistics, NaN),
                  TorchSaveFinish(opened.fs, loc, background_statistics),
                  1, 1, 1))))

---------------------------------------------------------------------------
(* score *)

ScoreResult(out, fsys, bgcalls, bgres, distcalls) ==
    [ret |-> out, fs |-> fsys, bgcalls |-> bgcalls, bg |-> bgres,
     distcalls |-> distcalls]

NoBg(fsys) == BgResult(Raise("None"), fsys, 0, 0, 0)

\* FAD.score(evaluation) of an object whose self.background is background_
Score(fsys, background_, evaluation, sq1, sq2) ==
    With(GetEmbeddings(evaluation), LAMBDA embds_eval :
    IF embds_eval.raised # "None"
    THEN ScoreResult(Raise(embds_eval.raised), fsys, 0, NoBg(fsys), 0)
    ELSE IF LenArr(embds_eval.value) = 0
    THEN ScoreResult(Outcome("None", "minus1", NoStats, QInt(-1)),
                     fsys, 0, NoBg(fsys), 0)
    ELSE
    With(BackgroundStatistics(fsys, DefaultLoc, background_), LAMBDA b :
    IF b.ret.raised # "None"
    THEN ScoreResult(Raise(b.ret.raised), b.fs, 1, b, 0)
    ELSE IF b.ret.kind = "minus1"
    THEN \* mu_background, sigma_background = -1
         ScoreResult(Raise("TypeError"), b.fs, 1, b, 0)
    ELSE
    With(CalculateEmbdStatistics(embds_eval.value), LAMBDA ev :
    With(CalculateFrechetDistance(b.ret.stats[1], b.ret.stats[2],
                                  ev[1], ev[2], EPS, sq1, sq2), LAMBDA d :
    IF d.raised # "None"
    THEN ScoreResult(Raise(d.raised), b.fs, 1, b, 1)
    ELSE ScoreResult(Outcome("None", "distance", NoStats, d.value), b.fs, 1, b, 1)))))

---------------------------------------------------------------------------
(* Inputs *)

\* the sample sequences given as background or as evaluation: the empty
\* one, one whose only waveform has no frame, and two with two frames
SampleSets ==
    { <<>>,
      <<Silent>>,
      <<Wave(0, 0), Wave(2, 0)>>,
      <<Wave(0, 2), Wave(2, 2)>> }

\* the oracle answers tried inside score: a finite real one, a real one
\* with NaN, and a complex one whose diagonal is off the tolerance
ScoreSqrtmKinds ==
    { [re |-> QInt(2), im |-> QInt(0), off |-> QInt(0), cplx |-> FALSE],
      [re |-> NaN, im |-> QInt(0), off |-> QInt(0), cplx |-> FALSE],
      [re |-> QInt(2), im |-> Q(1, 500), off |-> QInt(0), cplx |-> TRUE] }

Procs == 1..NumProcs

---------------------------------------------------------------------------
(* Sequential runs: whole calls of the two public operations on one object *)

NoCall ==
    [op |-> "none", loc |-> DefaultLoc, arg |-> <<>>, pre |-> Absent,
     preDir |-> FALSE, out |-> Raise("None"), bgcalls |-> 0, computes |-> 0,
     estimates |-> 0, writes |-> 0, distcalls |-> 0]

NoHist ==
    [calls |-> 0, bg0 |-> <<>>, same |-> TRUE, computes |-> 0,
     first |-> Raise("None"), agree |-> TRUE]

\* the summary of a save_path after one more run r of the background path
\* with argument b
Record(h, b, r) ==
    IF h.calls = 0
    THEN [calls |-> 1, bg0 |-> b, same |-> TRUE, computes |-> r.computes,
          first |-> r.ret, agree |-> TRUE]
    ELSE [calls |-> h.calls + 1, bg0 |-> h.bg0, same |-> h.same /\ b = h.bg0,
          computes |-> h.computes + r.computes, first |-> h.first,
          agree |-> h.agree /\ r.ret = h.first]

RaceIdle ==
    /\ pc = [p \in Procs |-> "off"]
    /\ stats = [p \in Procs |-> NoStats]
    /\ ret = [p \in Procs |-> Raise("None")]
    /\ bg = [p \in Procs |-> <<>>]
    /\ writers = <<>>

NoDist ==
    [mu1 |-> NoArr, sigma1 |-> NoArr, mu2 |-> NoArr, sigma2 |-> NoArr,
     sq1 |-> CHOOSE k \in SqrtmKinds : TRUE, sq2 |-> CHOOSE k \in SqrtmKinds : TRUE,
     called |-> FALSE,
     out |-> DistResult("None", "", NaN, NaN, <<>>, NoCovmean)]

SeqIdle ==
    /\ ncalls = 0
    /\ last = NoCall
    /\ hist = [l \in Locations |-> NoHist]

FsInit == fs \in [Locations -> [dir : BOOLEAN, file : {Absent}]]

\* Direct calls of the background path on one object, one after the other
\* (self.background plays no part in them).
Init ==
    /\ FsInit
    /\ background = <<>>
    /\ SeqIdle
    /\ RaceIdle
    /\ dist = NoDist

\* a call frechet.calculate_embd_statistics_background(b, save_path=loc)
BackgroundCall(loc, b) ==
    /\ ncalls < MaxCalls
    /\ \E r \in {BackgroundStatistics(fs, loc, b)} :
           /\ fs' = r.fs
           /\ last' = [op |-> "background", loc |-> loc, arg |-> b,
                       pre |-> fs[loc].file, preDir |-> fs[loc].dir,
                       out |-> r.ret, bgcalls |-> 1, computes |-> r.computes,
                       estimates |-> r.estimates, writes |-> r.writes,
                       distcalls |-> 0]
           /\ hist' = [hist EXCEPT ![loc] = Record(@, b, r)]
    /\ ncalls' = ncalls + 1
    /\ UNCHANGED <<background, pc, stats, ret, bg, writers, dist>>

Next == \E loc \in Locations, b \in SampleSets : BackgroundCall(loc, b)

Spec == Init /\ [][Next]_vars

---------------------------------------------------------------------------
(* Sequential runs of score on one object *)

ScoreInit ==
    /\ FsInit
    /\ background \in SampleSets
    /\ SeqIdle
    /\ RaceIdle
    /\ dist = NoDist

\* a call frechet.score(e)
ScoreCall(e, sq1, sq2) ==
    /\ ncalls < MaxCalls
    /\ \E r \in {Score(fs, background, e, sq1, sq2)} :
           /\ fs' = r.fs
           /\ last' = [op |-> "score", loc |-> DefaultLoc, arg |-> e,
                       pre |-> fs[DefaultLoc].file, preDir |-> fs[DefaultLoc].dir,
                       out |-> r.ret, bgcalls |-> r.bgcalls,
                       computes |-> r.bg.computes, estimates |-> r.bg.estimates,
                       writes |-> r.bg.writes, distcalls |-> r.distcalls]
           /\ hist' = IF r.bgcalls = 0 THEN hist
                      ELSE [hist EXCEPT ![DefaultLoc] = Record(@, background, r.bg)]
    /\ ncalls' = ncalls + 1
    /\ UNCHANGED <<background, pc, stats, ret, bg, writers, dist>>

ScoreNext ==
    \E e \in SampleSets, sq1, sq2 \in ScoreSqrtmKinds : ScoreCall(e, sq1, sq2)

SpecScore == ScoreInit /\ [][ScoreNext]_vars

---------------------------------------------------------------------------
(* Concurrent runs: NumProcs processes, each running the background path   *)
(* once against the default save_path.  A step is one access to the file   *)
(* system (or the local computation between two accesses).                 *)

RaceInit ==
    /\ FsInit
    /\ fs["cache/"].dir
    /\ background = <<>>
    /\ SeqIdle
    /\ dist = NoDist
    /\ pc = [p \in Procs |-> "exists"]
    /\ stats = [p \in Procs |-> NoStats]
    /\ ret = [p \in Procs |-> Raise("None")]
    /\ bg \in [Procs -> SampleSets]
    /\ writers = <<>>

RaceFrame == UNCHANGED <<background, ncalls, last, hist, bg, dist>>

\* line 117: os.path.exists(save_path)
RaceExists(p) ==
    /\ pc[p] = "exists"
    /\ pc' = [pc EXCEPT ![p] = IF PathExists(fs, DefaultLoc) THEN "load" ELSE "compute"]
    /\ UNCHANGED <<fs, stats, ret, writers>>
    /\ RaceFrame

\* line 118: return torch.load(save_path)
RaceLoad(p) ==
    /\ pc[p] = "load"
    /\ ret' = [ret EXCEPT ![p] = TorchLoad(fs, DefaultLoc)]
    /\ pc' = [pc EXCEPT ![p] = "done"]
    /\ UNCHANGED <<fs, stats, writers>>
    /\ RaceFrame

\* lines 120-125: the embeddings and the statistics (no file access)
RaceCompute(p) ==
    /\ pc[p] = "compute"
    /\ LET embds_background == GetEmbeddings(bg[p])
       IN  IF embds_background.raised # "None"
           THEN /\ ret' = [ret EXCEPT ![p] = Raise(embds_background.raised)]
                /\ pc' = [pc EXCEPT ![p] = "done"]
                /\ UNCHANGED stats
           ELSE IF LenArr(embds_background.value) = 0
           THEN /\ ret' = [ret EXCEPT ![p] = Outcome("None", "minus1", NoStats, QInt(-1))]
                /\ pc' = [pc EXCEPT ![p] = "done"]
                /\ UNCHANGED stats
           ELSE /\ stats' = [stats EXCEPT ![p] =
                                CalculateEmbdStatistics(embds_background.value)]
                /\ pc' = [pc EXCEPT ![p] = "save"]
                /\ UNCHANGED ret
    /\ UNCHANGED <<fs, writers>>
    /\ RaceFrame

\* line 126: torch.save opens the file
RaceSaveOpen(p) ==
    /\ pc[p] = "save"
    /\ LET opened == TorchSaveOpen(fs, DefaultLoc)
       IN  IF opened.ok
           THEN /\ fs' = opened.fs
                /\ pc' = [pc EXCEPT ![p] = "write"]
                /\ UNCHANGED ret
           ELSE /\ ret' = [ret EXCEPT ![p] = Raise("RuntimeError")]
                /\ pc' = [pc EXCEPT ![p] = "done"]
                /\ UNCHANGED fs
    /\ UNCHANGED <<stats, writers>>
    /\ RaceFrame

\* lines 126-127: torch.save writes and closes the file; the call returns
RaceSaveFinish(p) ==
    /\ pc[p] = "write"
    /\ fs' = TorchSaveFinish(fs, DefaultLoc, stats[p])
    /\ writers' = Append(writers, p)
    /\ ret' = [ret EXCEPT ![p] = Outcome("None", "stats", stats[p], NaN)]
    /\ pc' = [pc EXCEPT ![p] = "done"]
    /\ UNCHANGED stats
    /\ RaceFrame

RaceNext ==
    \E p \in Procs :
        \/ RaceExists(p)
        \/ RaceLoad(p)
        \/ RaceCompute(p)
        \/ RaceSaveOpen(p)
        \/ RaceSaveFinish(p)

SpecRace == RaceInit /\ [][RaceNext]_vars

---------------------------------------------------------------------------
(* Direct calls of calculate_frechet_distance, one per run *)

DiagOf(n, x) == Mat(n, n, LAMBDA i, j : IF i = j THEN x ELSE QInt(0))

\* means: a scalar, and vectors of length 1 and 2
DistMus == { Scalar(QInt(1)), Vec(<<QInt(1)>>), Vec(<<QInt(1), QInt(3)>>) }

\* covariances: a scalar, a 1-d array, 1 x 1 and 2 x 2 matrices, and a
\* matrix with a NaN
DistSigmas ==
    { Scalar(QInt(2)), Vec(<<QInt(2), QInt(2)>>), DiagOf(1, QInt(2)),
      DiagOf(2, QInt(2)), DiagOf(1, NaN) }

DistInit ==
    /\ FsInit
    /\ fs["cache/"].dir
    /\ fs[DefaultLoc].dir
    /\ background = <<>>
    /\ SeqIdle
    /\ RaceIdle
    /\ dist = NoDist

\* a call frechet.calculate_frechet_distance(mu1, sigma1, mu2, sigma2)
DistanceCall(mu1, sigma1, mu2, sigma2, sq1, sq2) ==
    /\ dist' = [mu1 |-> mu1, sigma1 |-> sigma1, mu2 |-> mu2, sigma2 |-> sigma2,
                sq1 |-> sq1, sq2 |-> sq2, called |-> TRUE,
                out |-> CalculateFrechetDistance(mu1, sigma1, mu2, sigma2,
                                                 EPS, sq1, sq2)]
    /\ UNCHANGED <<fs, background, ncalls, last, hist, pc, stats, ret, bg, writers>>

DistNext ==
    /\ ~dist.called
    /\ \E mu1, mu2 \in DistMus, sigma1, sigma2 \in DistSigmas, sq1, sq2 \in SqrtmKinds :
            DistanceCall(mu1, sigma1, mu2, sigma2, sq1, sq2)

SpecDist == DistInit /\ [][DistNext]_vars

---------------------------------------------------------------------------
(* Properties of the background path, sequential runs (Spec) *)

\* the sample sequence yields at least one embedding row
HasFrames(x) == \E k \in 1..Len(x) : Len(x[k]) > 0

StatsOf(x) == CalculateEmbdStatistics(GetEmbeddings(x).value)

Minus1 == Outcome("None", "minus1", NoStats, QInt(-1))

\* C1: a call of the background path made while a complete statistics file
\* exists at the location returns the object that was persisted there (its
\* pickle is the file's bytes), calls neither get_embeddings nor
\* calculate_embd_statistics, and leaves the file as it was.
C1_LoadsWithoutCompute ==
    (last.op = "background" /\ last.pre.state = "complete") =>
        /\ last.out.raised = "None"
        /\ last.out.kind = "stats"
        /\ Pickle(last.out.stats) = last.pre.bytes
        /\ last.computes = 0
        /\ last.estimates = 0
        /\ last.writes = 0
        /\ fs[last.loc].file = last.pre

\* C1 witness: a call with a background that has frames found the file of
\* another background and returned that file's statistics, not its own
C1_Witness ==
    /\ last.op = "background"
    /\ last.pre.state = "complete"
    /\ HasFrames(last.arg)
    /\ last.out.kind = "stats"
    /\ last.out.stats # StatsOf(last.arg)

\* C2 (as claimed): when every call so far at a location used the same
\* background, one that has frames, get_embeddings ran at most once for that
\* location, and from the second call on every call returned the statistics
\* the first call returned.
C2_ComputeOnce ==
    \A l \in Locations :
        (hist[l].calls >= 1 /\ hist[l].same /\ HasFrames(hist[l].bg0)) =>
            /\ hist[l].computes <= 1
            /\ hist[l].calls >= 2 =>
                  (hist[l].first.kind = "stats" /\ hist[l].agree)

\* C3 (as claimed): a call that finds no file at the location and whose
\* background has frames computes once, leaves a complete file holding the
\* computed statistics and returns them, whether or not the directory of
\* the location existed before the call.
C3_ComputePersistReturn ==
    (last.op = "background" /\ last.pre = Absent /\ HasFrames(last.arg)) =>
        /\ last.computes = 1
        /\ last.out = Outcome("None", "stats", StatsOf(last.arg), NaN)
        /\ fs[last.loc].file = File("complete", Pickle(StatsOf(last.arg)))

\* C6 (as claimed): when every call so far at a location had the empty
\* background, every one of them returned -1 and no file exists there.
C6_EmptyNotPersisted ==
    \A l \in Locations :
        (hist[l].calls >= 1 /\ hist[l].same /\ hist[l].bg0 = <<>>) =>
            /\ hist[l].first = Minus1
            /\ hist[l].agree
            /\ fs[l].file = Absent

---------------------------------------------------------------------------
(* Properties of score (SpecScore) *)

\* C4 (as claimed): score of the empty evaluation sequence returns -1, never
\* enters the background path, leaves the file system alone and computes no
\* distance.
C4_EmptyEvaluationReturnsMinus1 ==
    (last.op = "score" /\ last.arg = <<>>) =>
        /\ last.out = Minus1
        /\ last.bgcalls = 0
        /\ last.distcalls = 0
        /\ fs[DefaultLoc].file = last.pre

\* C5 (as claimed): score of a non-empty evaluation sequence, with the empty
\* background and no file at the location, returns -1 and does not raise.
C5_EmptyBackgroundReturnsMinus1 ==
    (last.op = "score" /\ last.arg # <<>> /\ background = <<>>
        /\ last.pre = Absent) =>
        last.out = Minus1

---------------------------------------------------------------------------
(* Properties of calculate_frechet_distance (SpecDist) *)

Rank(a) == Len(a.shape)

KindNonFinite(k) == ~IsFinite(k.re) \/ ~IsFinite(k.im)

\* sqrtm was reached with an argument it accepts
SqrtmRan == dist.called /\ dist.out.sqrtmCalls # <<>>
            /\ dist.out.err # "array must not contain infs or NaNs"

DistDim == AtLeast2d(dist.sigma1).shape[1]

\* the oracle answer that became covmean
Selected == IF KindNonFinite(dist.sq1) THEN dist.sq2 ELSE dist.sq1

\* C7: a call whose means are vectors of different shapes, or whose
\* covariances are matrices of different shapes, raises AssertionError with
\* the message of the failed assert, before any sqrtm call, and yields no
\* distance.
C7_ShapeMismatchRaises ==
    (/\ dist.called
     /\ \/ (Rank(dist.mu1) = 1 /\ Rank(dist.mu2) = 1
             /\ dist.mu1.shape # dist.mu2.shape)
        \/ (Rank(dist.sigma1) = 2 /\ Rank(dist.sigma2) = 2
             /\ dist.sigma1.shape # dist.sigma2.shape)) =>
        /\ dist.out.raised = "AssertionError"
        /\ dist.out.err =
             IF AtLeast1d(dist.mu1).shape # AtLeast1d(dist.mu2).shape
             THEN "Training and test mean vectors have different lengths"
             ELSE "Training and test covariances have different dimensions"
        /\ dist.out.sqrtmCalls = <<>>
        /\ IsNaN(dist.out.value)

\* C7 witness: equal means, covariance matrices of different shapes
C7_Witness ==
    /\ dist.called
    /\ dist.mu1 = dist.mu2
    /\ Rank(dist.sigma1) = 2 /\ Rank(dist.sigma2) = 2
    /\ dist.sigma1.shape # dist.sigma2.shape
    /\ dist.out.raised = "AssertionError"

\* C8: once sqrtm has run, it is called a second time if and only if its
\* first answer has a non-finite entry; there are never more than two calls;
\* the second call is given (sigma1 + eps*I).(sigma2 + eps*I); and covmean is
\* the second answer when there is one (also when that answer is not finite:
\* a real one is then used for the result), the first answer otherwise.
C8_RetryOnceIffNonFinite ==
    SqrtmRan =>
        /\ Len(dist.out.sqrtmCalls) <= 2
        /\ (Len(dist.out.sqrtmCalls) = 2) <=> KindNonFinite(dist.sq1)
        /\ dist.out.sqrtmCalls[1] = <<AtLeast2d(dist.sigma1), AtLeast2d(dist.sigma2)>>
        /\ KindNonFinite(dist.sq1) =>
              /\ \A f \in 1..2 : \A i, j \in 1..DistDim :
                    At(dist.out.sqrtmCalls[2][f], i, j) =
                        QAdd(At(dist.out.sqrtmCalls[1][f], i, j),
                             IF i = j THEN Q(1, 1000000) ELSE QInt(0))
              /\ dist.out.covmean.data = SqrtmResult(dist.sq2, DistDim).data
              /\ ~dist.sq2.cplx => dist.out.raised = "None"
        /\ ~KindNonFinite(dist.sq1) =>
              dist.out.covmean.data = SqrtmResult(dist.sq1, DistDim).data

\* C8 witness: the first answer was not finite, the second is a real array
\* with NaN, and the call returned (NaN) without a further retry
C8_Witness ==
    /\ SqrtmRan
    /\ Len(dist.out.sqrtmCalls) = 2
    /\ ~dist.sq2.cplx
    /\ IsNaN(dist.sq2.re)
    /\ dist.out.raised = "None"
    /\ IsNaN(dist.out.value)

\* C9: when covmean is complex: if some diagonal entry has an imaginary part
\* of magnitude above 1e-3 (or not comparable), the call raises ValueError
\* "Imaginary component" with the largest magnitude among all imaginary
\* parts and yields no distance; otherwise it returns
\* diff.diff + tr(sigma1) + tr(sigma2) - 2 tr(Re covmean).
C9_ComplexResidue ==
    (SqrtmRan /\ Selected.cplx) =>
        IF ~QLeq(QAbs(Selected.im), Q(1, 1000))
        THEN /\ dist.out.raised = "ValueError"
             /\ dist.out.err = "Imaginary component"
             /\ dist.out.m = IF DistDim >= 2
                             THEN QMax(<<QAbs(Selected.im), QAbs(Selected.off)>>)
                             ELSE QAbs(Selected.im)
             /\ IsNaN(dist.out.value)
        ELSE /\ dist.out.raised = "None"
             /\ dist.out.value =
                  QSub(QAdd(QAdd(Dot1(ArrSub(AtLeast1d(dist.mu1), AtLeast1d(dist.mu2)),
                                      ArrSub(AtLeast1d(dist.mu1), AtLeast1d(dist.mu2))),
                                 Trace(AtLeast2d(dist.sigma1))),
                            Trace(AtLeast2d(dist.sigma2))),
                       QMul(QInt(2 * DistDim), Selected.re))

\* C9 witness: the diagonal is off the tolerance and the reported magnitude
\* is that of an off-diagonal entry
C9_Witness ==
    /\ SqrtmRan
    /\ Selected.cplx
    /\ dist.out.raised = "ValueError"
    /\ dist.out.m = Q(1, 2)
    /\ Selected.im = Q(1, 500)

---------------------------------------------------------------------------
(* Properties of concurrent runs of the background path (SpecRace) *)

AllDone == \A p \in Procs : pc[p] = "done"

\* C10: once all processes have finished, if any of them wrote, the file is
\* complete and holds the statistics of the process whose torch.save
\* completed last.
C10_LastWriterWins ==
    (AllDone /\ writers # <<>>) =>
        fs[DefaultLoc].file =
            File("complete", Pickle(stats[writers[Len(writers)]]))

\* C10 witness: two processes passed the existence check, both computed and
\* both wrote different statistics
C10_Witness ==
    /\ AllDone
    /\ Len(writers) >= 2
    /\ stats[writers[1]] # stats[writers[2]]
    /\ ret[writers[1]].kind = "stats"
    /\ ret[writers[2]].kind = "stats"

\* a process loaded the file while another was still writing it
C10_ReadDuringWrite ==
    \E p, q \in Procs :
        /\ pc[p] = "write"
        /\ pc[q] = "done"
        /\ ret[q].raised = "RuntimeError"
        /\ fs[DefaultLoc].dir

====
